---- MODULE Spec2Model ----
(***************************************************************************)
(* Kaito: the Lua script runtime (src/modules/lua/state.rs), its async      *)
(* library (src/modules/lua/lib/async.rs) and the bridge between the tokio  *)
(* executor and the interpreter thread.                                     *)
(*                                                                          *)
(* The host thread owns one LuaState.  Its methods run_sandboxed,           *)
(* run_bot_command and think call Lua functions; while such a call is in    *)
(* flight the script may call the capability async.delay.  Every spawned    *)
(* tokio task runs concurrently with the host thread: it sleeps, and then   *)
(* sends one LuaAsyncCallback on the crossbeam channel that think() drains. *)
(* A host method is therefore modelled as the sequence of its steps between *)
(* which a task may run; each step is one action.                           *)
(*                                                                          *)
(* Spec is the runtime and its bridge.  SandboxSpec adds the SandboxState   *)
(* methods and the messages of the runs, AmbientSpec is a sandboxed runtime *)
(* with several runs, QuotaSpec a run that prints.  SettingsSpec is one     *)
(* Setting<T> of src/settings.rs, which shares no state with the runtime.   *)
(***************************************************************************)
EXTENDS Integers, Sequences, FiniteSets, TLC

\* Bounds of the model.
MaxFutures == 2     \* futures created over one behaviour
MaxRuns == 2        \* run_sandboxed calls over one behaviour of AmbientSpec
MaxBridgeRuns == 1  \* run_sandboxed calls over one behaviour of Spec
MaxMsgs == 2        \* sandbox messages over one behaviour of SandboxSpec
MaxSbFutures == 1   \* futures created over one behaviour of SandboxSpec
MaxSbRuns == 1      \* run_sandboxed calls over one behaviour of SandboxSpec
MaxPrints == 11     \* sandbox messages over one behaviour of QuotaSpec
MaxServers == 1     \* server ids a Setting is used with
MaxChannels == 2    \* channel ids a Setting is used with

\* Option<SandboxState>::None in a descriptor and in the "__SANDBOX_STATE" slot.
NoCtx == 0

Futures == 1..MaxFutures
Runs == 1..MaxRuns

\* f64 arguments of async.delay, by the classes the validation tells apart.
\* Every finite class stands for values that Duration::from_secs_f64 accepts.
Durations == {"neg", "negzero", "zero", "pos", "inf", "neginf", "nan"}

VARIABLES
    sandbox,    \* LuaState.sandbox
    pc,         \* where the host thread is
    cur,        \* the descriptor whose resolution call is in flight
    host,       \* the host method last called, and what it returned
    ambient,    \* the named registry value "__SANDBOX_STATE"
    nruns,      \* SandboxStates created so far
    nfut,       \* futures created so far
    registry,   \* futures that have a registry (keep-alive) entry
    task,       \* the tokio task spawned for each future
    queue,      \* the channel async_sender -> async_receiver
    interp,     \* number of calls into the interpreter in flight
    elapsed,    \* futures whose native work has completed
    enq,        \* futures in the order their descriptors were sent
    popped,     \* futures in the order their descriptors were received
    resolved,   \* the resolution calls made by think(), in order
    rejected,   \* futures created by async.delay calls that failed validation
    lastCall,   \* the async.delay call the script has just made, and its result
    tick,       \* what the current or last think() found when it was called and
                \* has not received since
    msgs,       \* per run, the SandboxMsgs its receiver was sent
    rcvOpen,    \* per run, whether the host still holds the receiver
    linesLeft,  \* per run, SandboxLimits.lines_left
    lastMethod, \* the SandboxState method the script has just called, and its result
    budget,     \* how many messages, futures and runs this behaviour may have
    setting,    \* a Setting<T>: its type, flags, parameters and default
    cachedCh,   \* Setting.cached_channel_values
    cachedSv,   \* Setting.cached_server_values
    latestCh,   \* per channel, the value of the latest set_value that succeeded
    latestSv,   \* per server, the value of the latest set_value that succeeded
    lastOp      \* the Setting method last called, and its result

bridgeVars == <<sandbox, pc, cur, host, ambient, nruns, nfut, registry, task,
                queue, interp, elapsed, enq, popped, resolved, rejected,
                lastCall, tick>>
sandboxVars == <<msgs, rcvOpen, linesLeft, lastMethod, budget>>
settingVars == <<setting, cachedCh, cachedSv, latestCh, latestSv, lastOp>>
vars == <<bridgeVars, sandboxVars, settingVars>>

LuaPcs == {"run", "command", "think_hook", "resolve"}

NoTask == [st |-> "none", kind |-> "none", ctx |-> NoCtx, ok |-> TRUE]
NoDesc == [fut |-> 0, ctx |-> NoCtx, ok |-> TRUE]
NoHost == [op |-> "none", res |-> "none", cause |-> "none"]
NoCall == [op |-> "none", d |-> "zero", res |-> "none", fut |-> 0]
NoTick == [startQ |-> {}, startE |-> {}, errPopped |-> 0, hook |-> "none"]

Range(s) == {s[i] : i \in 1..Len(s)}
QueueFuts == [i \in 1..Len(queue) |-> queue[i].fut]

BridgeInit ==
    /\ sandbox \in BOOLEAN
    /\ pc = "idle"
    /\ cur = NoDesc
    /\ host = NoHost
    /\ ambient = NoCtx
    /\ nruns = 0
    /\ nfut = 0
    /\ registry = {}
    /\ task = [f \in Futures |-> NoTask]
    /\ queue = <<>>
    /\ interp = 0
    /\ elapsed = {}
    /\ enq = <<>>
    /\ popped = <<>>
    /\ resolved = <<>>
    /\ rejected = {}
    /\ lastCall = NoCall
    /\ tick = NoTick

\* SandboxLimits.lines_left of a fresh SandboxState
LinesLeftInit == 10

NoMethod == [op |-> "none", arg |-> "", res |-> "none"]

\* no SandboxState exists yet
SandboxInit ==
    /\ msgs = [c \in Runs |-> <<>>]
    /\ rcvOpen = [c \in Runs |-> FALSE]
    /\ linesLeft = [c \in Runs |-> 0]
    /\ lastMethod = NoMethod

\* Option<T>::None of a cache lookup, and the values T: bool or String
NoValue == [ty |-> "none", b |-> FALSE, s |-> <<>>]
BoolValue(b) == [ty |-> "bool", b |-> b, s |-> <<>>]
StringValue(str) == [ty |-> "string", b |-> FALSE, s |-> str]

Servers == 1..MaxServers
Channels == 1..MaxChannels

NoOp == [op |-> "none", ok |-> TRUE, val |-> NoValue, sv |-> 0, ch |-> 0]

\* no Setting is in use
SettingUnused ==
    /\ setting = [ty |-> "none", override |-> FALSE, maxLen |-> {},
                  default |-> NoValue]
    /\ cachedCh = [c \in Channels |-> NoValue]
    /\ cachedSv = [sv \in Servers |-> NoValue]
    /\ latestCh = [c \in Channels |-> NoValue]
    /\ latestSv = [sv \in Servers |-> NoValue]
    /\ lastOp = NoOp

Init ==
    /\ BridgeInit
    /\ SandboxInit
    /\ budget = [msgs |-> 0, futs |-> MaxFutures, runs |-> MaxBridgeRuns]
    /\ SettingUnused

(***************************************************************************)
(* create_state: the bootstrap script decides which global tables exist.    *)
(***************************************************************************)
HasSandboxTable == sandbox
HasBotTable == ~sandbox

(***************************************************************************)
(* The channel (crossbeam unbounded): send appends, try_recv takes the head.*)
(***************************************************************************)
\* variant: a channel that hands out the newest descriptor first
BridgeSendFront(q, d) == <<d>> \o q

BridgeSend(q, d) == Append(q, d)

BridgeRecv(q) == Head(q)

\* variant: a receive that leaves the descriptor in the channel
BridgeKeep(q) == q

BridgeRest(q) == Tail(q)

(***************************************************************************)
(* async.delay, called by the script while a Lua call is in flight.         *)
(***************************************************************************)
SignNegative(d) == d \in {"neg", "negzero", "neginf"}
Finite(d) == d \in {"neg", "negzero", "zero", "pos"}

\* variant: a validation that forgets the is_finite test
InvalidDurationSignOnly(d) == SignNegative(d)

InvalidDuration(d) == SignNegative(d) \/ ~Finite(d)

\* the SandboxState passed to the entry point in flight: run_fn.call((state, ..))
\* in run_sandboxed, (sandbox_state.clone(), ..) in think()
ThisStates ==
    IF pc = "run" THEN {nruns}
    ELSE IF pc = "resolve" /\ cur.ctx # NoCtx THEN {cur.ctx}
    ELSE {}

\* the run whose script is making a call, NoCtx when no run's script is
Caller == IF ThisStates = {} THEN NoCtx ELSE CHOOSE c \in ThisStates : TRUE

\* variant: a task that captures the state of the newest run
SpawnLatestRun(f, kind, ok) ==
    task' = [task EXCEPT ![f] = [st |-> "sleeping", kind |-> kind,
                                 ctx |-> nruns, ok |-> ok]]

\* variant: a create_future that returns the key of a value it does not store
CreateRegistryValueWeak(reg, f) == reg

\* create_future: state.create_registry_value(fut.clone())
CreateRegistryValue(reg, f) == reg \cup {f}

\* tokio::spawn of the task: it captures the key, the ambient state and the
\* completion closure.
Spawn(f, kind, ok) ==
    task' = [task EXCEPT ![f] = [st |-> "sleeping", kind |-> kind,
                                 ctx |-> ambient, ok |-> ok]]

AsyncDelay(d, ctorOk) ==
    /\ pc \in LuaPcs
    /\ nfut < budget.futs
    /\ IF ~ctorOk
       THEN \* create_future failed: wrap_future! returns its error
            /\ lastCall' = [op |-> "delay", d |-> d, res |-> "future error", fut |-> 0]
            /\ UNCHANGED <<nfut, registry, task, rejected>>
       ELSE /\ nfut' = nfut + 1
            /\ registry' = CreateRegistryValue(registry, nfut + 1)
            /\ IF InvalidDuration(d)
               THEN /\ lastCall' = [op |-> "delay", d |-> d,
                                    res |-> "Invalid duration", fut |-> nfut + 1]
                    /\ rejected' = rejected \cup {nfut + 1}
                    /\ UNCHANGED task
               ELSE /\ lastCall' = [op |-> "delay", d |-> d, res |-> "ok",
                                    fut |-> nfut + 1]
                    /\ Spawn(nfut + 1, "delay", TRUE)
                    /\ UNCHANGED rejected
    /\ UNCHANGED <<sandbox, pc, cur, host, ambient, nruns, queue, interp,
                   elapsed, enq, popped, resolved, tick>>
    /\ lastMethod' = NoMethod
    /\ UNCHANGED <<msgs, rcvOpen, linesLeft, budget, settingVars>>

(***************************************************************************)
(* A capability that starts native work whose completion function may       *)
(* report a failure (http_fetch and the like): it creates the future,       *)
(* captures the ambient state and spawns the work.                          *)
(***************************************************************************)
AsyncCapability(ok) ==
    /\ pc \in LuaPcs
    /\ nfut < budget.futs
    /\ nfut' = nfut + 1
    /\ registry' = CreateRegistryValue(registry, nfut + 1)
    /\ Spawn(nfut + 1, "fetch", ok)
    /\ lastCall' = NoCall
    /\ UNCHANGED <<sandbox, pc, cur, host, ambient, nruns, queue, interp,
                   elapsed, enq, popped, resolved, rejected, tick>>
    /\ lastMethod' = NoMethod
    /\ UNCHANGED <<msgs, rcvOpen, linesLeft, budget, settingVars>>

(***************************************************************************)
(* The spawned task, on the executor's threads.                             *)
(***************************************************************************)
NativeWorkCompletes(f) ==
    /\ task[f].st = "sleeping"
    /\ task' = [task EXCEPT ![f].st = "elapsed"]
    /\ elapsed' = elapsed \cup {f}
    /\ UNCHANGED <<sandbox, pc, cur, host, ambient, nruns, nfut, registry,
                   queue, interp, enq, popped, resolved, rejected, lastCall, tick>>
    /\ UNCHANGED <<sandboxVars, settingVars>>

Descriptor(f) == [fut |-> f, ctx |-> task[f].ctx, ok |-> task[f].ok]

\* variant: a task that sends before its delay has elapsed
TaskSendEarly(f) ==
    /\ task[f].st = "sleeping"
    /\ task' = [task EXCEPT ![f].st = "done"]
    /\ queue' = BridgeSend(queue, Descriptor(f))
    /\ enq' = Append(enq, f)
    /\ UNCHANGED <<sandbox, pc, cur, host, ambient, nruns, nfut, registry,
                   interp, elapsed, popped, resolved, rejected, lastCall, tick>>
    /\ UNCHANGED <<sandboxVars, settingVars>>

\* variant: a task that calls the future's hook itself instead of sending
TaskResolvesDirectly(f) ==
    /\ task[f].st = "elapsed"
    /\ task' = [task EXCEPT ![f].st = "done"]
    /\ interp' = interp + 1
    /\ UNCHANGED <<sandbox, pc, cur, host, ambient, nruns, nfut, registry,
                   queue, elapsed, enq, popped, resolved, rejected, lastCall, tick>>
    /\ UNCHANGED <<sandboxVars, settingVars>>

TaskSend(f) ==
    /\ task[f].st = "elapsed"
    /\ task' = [task EXCEPT ![f].st = "done"]
    /\ queue' = BridgeSend(queue, Descriptor(f))
    /\ enq' = Append(enq, f)
    /\ UNCHANGED <<sandbox, pc, cur, host, ambient, nruns, nfut, registry,
                   interp, elapsed, popped, resolved, rejected, lastCall, tick>>
    /\ UNCHANGED <<sandboxVars, settingVars>>

(***************************************************************************)
(* run_sandboxed and run_bot_command.                                       *)
(***************************************************************************)
RunSandboxed ==
    /\ pc = "idle"
    /\ tick' = NoTick
    /\ IF HasSandboxTable
       THEN /\ nruns < budget.runs
            /\ nruns' = nruns + 1
            /\ ambient' = nruns + 1
            /\ pc' = "run"
            /\ interp' = interp + 1
            /\ host' = [op |-> "run_sandboxed", res |-> "running", cause |-> "none"]
       ELSE /\ host' = [op |-> "run_sandboxed", res |-> "err", cause |-> "lookup"]
            /\ UNCHANGED <<nruns, ambient, pc, interp>>
    /\ UNCHANGED <<sandbox, cur, nfut, registry, task, queue, elapsed, enq,
                   popped, resolved, rejected, lastCall>>
    /\ IF HasSandboxTable
       THEN \* the fresh SandboxState and its channel
            /\ rcvOpen' = [rcvOpen EXCEPT ![nruns + 1] = TRUE]
            /\ linesLeft' = [linesLeft EXCEPT ![nruns + 1] = LinesLeftInit]
       ELSE UNCHANGED <<rcvOpen, linesLeft>>
    /\ UNCHANGED <<msgs, lastMethod, budget, settingVars>>

RunBotCommand ==
    /\ pc = "idle"
    /\ tick' = NoTick
    /\ IF HasBotTable
       THEN /\ pc' = "command"
            /\ interp' = interp + 1
            /\ host' = [op |-> "run_bot_command", res |-> "running", cause |-> "none"]
       ELSE /\ host' = [op |-> "run_bot_command", res |-> "err", cause |-> "lookup"]
            /\ UNCHANGED <<pc, interp>>
    /\ UNCHANGED <<sandbox, cur, ambient, nruns, nfut, registry, task, queue,
                   elapsed, enq, popped, resolved, rejected, lastCall>>
    /\ UNCHANGED <<sandboxVars, settingVars>>

\* run_fn.call / on_command_fn.call returns or raises.  The receiver that
\* run_sandboxed drops when it returns Err is dropped by DropReceiver.
EntryReturns(ok) ==
    /\ pc \in {"run", "command"}
    /\ pc' = "idle"
    /\ interp' = interp - 1
    /\ host' = [host EXCEPT !.res = IF ok THEN "ok" ELSE "err",
                            !.cause = IF ok THEN "none" ELSE "entry"]
    /\ lastCall' = NoCall
    /\ UNCHANGED <<sandbox, cur, ambient, nruns, nfut, registry, task, queue,
                   elapsed, enq, popped, resolved, rejected, tick>>
    /\ lastMethod' = NoMethod
    /\ UNCHANGED <<msgs, rcvOpen, linesLeft, budget, settingVars>>

(***************************************************************************)
(* think(): the think hook, then the drain loop.                            *)
(***************************************************************************)
NotPopped(S) == S \ Range(popped)

\* variant: a think() that always takes the sandbox table
ThinkHookAlwaysSandbox(sb) == "sandbox.think"

\* if self.sandbox { sandbox.think } else { bot.think }
ThinkHook(sb) == IF sb THEN "sandbox.think" ELSE "bot.think"

Think ==
    /\ pc = "idle"
    /\ pc' = "think_hook"
    /\ interp' = interp + 1
    /\ host' = [op |-> "think", res |-> "running", cause |-> "none"]
    /\ tick' = [startQ |-> Range(QueueFuts), startE |-> NotPopped(elapsed),
                errPopped |-> 0, hook |-> ThinkHook(sandbox)]
    /\ UNCHANGED <<sandbox, cur, ambient, nruns, nfut, registry, task, queue,
                   elapsed, enq, popped, resolved, rejected, lastCall>>
    /\ UNCHANGED <<sandboxVars, settingVars>>

\* think_fn.call(())? returns, or raises and think() returns the error
ThinkHookReturns(ok) ==
    /\ pc = "think_hook"
    /\ interp' = interp - 1
    /\ IF ok
       THEN /\ pc' = "drain"
            /\ UNCHANGED <<host, tick>>
       ELSE /\ pc' = "idle"
            /\ host' = [host EXCEPT !.res = "err", !.cause = "think_hook"]
            /\ tick' = [tick EXCEPT !.errPopped = Len(popped)]
    /\ lastCall' = NoCall
    /\ UNCHANGED <<sandbox, cur, ambient, nruns, nfut, registry, task, queue,
                   elapsed, enq, popped, resolved, rejected>>
    /\ lastMethod' = NoMethod
    /\ UNCHANGED <<msgs, rcvOpen, linesLeft, budget, settingVars>>

\* the outcome of cb(&self.inner): (succ, value)
Succ(d) == d.ok
Value(d) == IF d.ok THEN "values" ELSE "message"

\* variant: the hook chosen without looking at succ
ResolveFnAlwaysResolve(succ) == "__handle_resolve"

ResolveFn(succ) == IF succ THEN "__handle_resolve" ELSE "__handle_reject"

\* the boolean think() puts in the argument list of the call
FlagArg(succ) == TRUE

\* variant: a drain loop without the sandbox branch
RouteAlwaysDirect(sb, ctx) == "direct"

\* which call think() makes for a descriptor
Route(sb, ctx) ==
    IF sb
    THEN IF ctx # NoCtx THEN "async_callback" ELSE "none"
    ELSE "direct"

\* the method `set_state`: the value it stores in "__SANDBOX_STATE"
SetState(this) == this

\* sandbox.async_callback installs the state it is passed before it runs the
\* continuation
AsyncCallbackEntry(ctx) == SetState(ctx)

\* the call think() makes to resolve the future of descriptor d
CallResolution(d, route) ==
    /\ pc' = "resolve"
    /\ cur' = d
    /\ ambient' = IF route = "async_callback" THEN AsyncCallbackEntry(d.ctx)
                  ELSE ambient
    /\ interp' = interp + 1
    /\ resolved' = Append(resolved,
          [fut |-> d.fut,
           hook |-> IF route = "async_callback"
                    THEN "async_callback" ELSE ResolveFn(Succ(d)),
           ctx |-> IF route = "async_callback" THEN d.ctx ELSE NoCtx,
           flag |-> FlagArg(Succ(d)),
           val |-> Value(d),
           succ |-> Succ(d)])

DrainRecv ==
    /\ pc = "drain"
    /\ queue # <<>>
    /\ LET d == BridgeRecv(queue)
           route == Route(sandbox, d.ctx)
       IN /\ queue' = BridgeRest(queue)
          /\ popped' = Append(popped, d.fut)
          /\ IF d.fut \notin registry
             THEN \* registry_value(&fut_reg_key)? fails
                  /\ pc' = "idle"
                  /\ host' = [host EXCEPT !.res = "err", !.cause = "registry"]
                  /\ tick' = [tick EXCEPT !.startQ = @ \ {d.fut},
                                          !.startE = @ \ {d.fut},
                                          !.errPopped = Len(popped')]
                  /\ UNCHANGED <<cur, interp, resolved, registry, ambient>>
             ELSE /\ tick' = [tick EXCEPT !.startQ = @ \ {d.fut},
                                          !.startE = @ \ {d.fut}]
                  /\ IF route = "none"
                     THEN \* no call; the registry value is removed
                          /\ registry' = registry \ {d.fut}
                          /\ UNCHANGED <<pc, cur, host, interp, resolved, ambient>>
                     ELSE /\ CallResolution(d, route)
                          /\ UNCHANGED <<host, registry>>
    /\ UNCHANGED <<sandbox, nruns, nfut, task, elapsed, enq, rejected,
                   lastCall>>
    /\ UNCHANGED <<sandboxVars, settingVars>>

\* variant: a drain loop that goes on after a resolution raised
ResolutionSwallowsError(ok) ==
    /\ pc = "resolve"
    /\ interp' = interp - 1
    /\ cur' = NoDesc
    /\ registry' = registry \ {cur.fut}
    /\ pc' = "drain"
    /\ host' = [host EXCEPT !.cause = IF ok THEN "none" ELSE "resolution"]
    /\ tick' = IF ok THEN tick ELSE [tick EXCEPT !.errPopped = Len(popped)]
    /\ lastCall' = NoCall
    /\ UNCHANGED <<sandbox, ambient, nruns, nfut, task, queue, elapsed, enq,
                   popped, resolved, rejected>>
    /\ lastMethod' = NoMethod
    /\ UNCHANGED <<msgs, rcvOpen, linesLeft, budget, settingVars>>

\* run_fn.call(args)? / resolve_fn.call(args)? returns, or raises and think()
\* returns the error before remove_registry_value
ResolutionReturns(ok) ==
    /\ pc = "resolve"
    /\ interp' = interp - 1
    /\ cur' = NoDesc
    /\ IF ok
       THEN /\ registry' = registry \ {cur.fut}
            /\ pc' = "drain"
            /\ UNCHANGED <<host, tick>>
       ELSE /\ pc' = "idle"
            /\ host' = [host EXCEPT !.res = "err", !.cause = "resolution"]
            /\ tick' = [tick EXCEPT !.errPopped = Len(popped)]
            /\ UNCHANGED registry
    /\ lastCall' = NoCall
    /\ UNCHANGED <<sandbox, ambient, nruns, nfut, task, queue, elapsed, enq,
                   popped, resolved, rejected>>
    /\ lastMethod' = NoMethod
    /\ UNCHANGED <<msgs, rcvOpen, linesLeft, budget, settingVars>>

\* try_recv finds the channel empty: break, Ok(())
DrainBreak ==
    /\ pc = "drain"
    /\ queue = <<>>
    /\ pc' = "idle"
    /\ host' = [host EXCEPT !.res = "ok"]
    /\ UNCHANGED <<sandbox, cur, ambient, nruns, nfut, registry, task, queue,
                   interp, elapsed, enq, popped, resolved, rejected, lastCall, tick>>
    /\ UNCHANGED <<sandboxVars, settingVars>>

(***************************************************************************)
(* The SandboxState methods a script calls while a Lua call is in flight,   *)
(* on the state its entry point was passed, and the host dropping the       *)
(* receiver run_sandboxed returned.                                         *)
(***************************************************************************)
\* strings a script passes to terminate
Reasons == {"exec", "time", ""}

RECURSIVE SumLen(_)
SumLen(S) == IF S = {} THEN 0
             ELSE LET c == CHOOSE x \in S : TRUE
                  IN Len(msgs[c]) + SumLen(S \ {c})

\* the scripts of one behaviour send at most budget.msgs messages
MaySend(c) == rcvOpen[c] => SumLen(Runs) < budget.msgs

\* sender.send(msg): the message reaches the channel while a receiver exists
ChannelSend(c, m) == IF rcvOpen[c] THEN [msgs EXCEPT ![c] = Append(@, m)] ELSE msgs

\* variant: a method that hands the SendError to the script
SendPropagated(sent) == IF sent THEN "ok" ELSE "err"

\* send(..).ok(); Ok(())
SendIgnored(sent) == "ok"

\* the method `print`
SbPrint(c) ==
    /\ c \in ThisStates
    /\ MaySend(c)
    /\ msgs' = ChannelSend(c, "Out")
    /\ lastMethod' = [op |-> "print", arg |-> "", res |-> SendIgnored(rcvOpen[c])]
    /\ lastCall' = NoCall
    /\ UNCHANGED <<sandbox, pc, cur, host, ambient, nruns, nfut, registry, task,
                   queue, interp, elapsed, enq, popped, resolved, rejected, tick>>
    /\ UNCHANGED <<rcvOpen, linesLeft, budget, settingVars>>

\* the method `error`
SbError(c) ==
    /\ c \in ThisStates
    /\ MaySend(c)
    /\ msgs' = ChannelSend(c, "Error")
    /\ lastMethod' = [op |-> "error", arg |-> "", res |-> SendIgnored(rcvOpen[c])]
    /\ lastCall' = NoCall
    /\ UNCHANGED <<sandbox, pc, cur, host, ambient, nruns, nfut, registry, task,
                   queue, interp, elapsed, enq, popped, resolved, rejected, tick>>
    /\ UNCHANGED <<rcvOpen, linesLeft, budget, settingVars>>

\* variant: a match that takes every string for ExecutionQuota
TerminationReasonAny(value) == "ExecutionQuota"

\* match value.as_ref() { "exec" => ExecutionQuota, _ => return Err(..) }
TerminationReason(value) == IF value = "exec" THEN "ExecutionQuota" ELSE "unknown"

\* the method `terminate`
SbTerminate(c, value) ==
    /\ c \in ThisStates
    /\ IF TerminationReason(value) = "unknown"
       THEN \* RuntimeError("unknown termination reason: ..")
            /\ lastMethod' = [op |-> "terminate", arg |-> value, res |-> "err"]
            /\ UNCHANGED msgs
       ELSE /\ MaySend(c)
            /\ msgs' = ChannelSend(c, "Terminated")
            /\ lastMethod' = [op |-> "terminate", arg |-> value,
                              res |-> SendIgnored(rcvOpen[c])]
    /\ lastCall' = NoCall
    /\ UNCHANGED <<sandbox, pc, cur, host, ambient, nruns, nfut, registry, task,
                   queue, interp, elapsed, enq, popped, resolved, rejected, tick>>
    /\ UNCHANGED <<rcvOpen, linesLeft, budget, settingVars>>

\* the host, between two calls of the runtime, drops a receiver it holds
DropReceiver(c) ==
    /\ pc = "idle"
    /\ c \in 1..nruns
    /\ rcvOpen[c]
    /\ rcvOpen' = [rcvOpen EXCEPT ![c] = FALSE]
    /\ UNCHANGED <<bridgeVars, msgs, linesLeft, lastMethod, budget, settingVars>>

Next ==
    \/ RunSandboxed
    \/ RunBotCommand
    \/ \E ok \in BOOLEAN : EntryReturns(ok)
    \/ Think
    \/ \E ok \in BOOLEAN : ThinkHookReturns(ok)
    \/ DrainRecv
    \/ \E ok \in BOOLEAN : ResolutionReturns(ok)
    \/ DrainBreak
    \/ \E d \in Durations, ctorOk \in BOOLEAN : AsyncDelay(d, ctorOk)
    \/ \E ok \in BOOLEAN : AsyncCapability(ok)
    \/ \E f \in Futures : NativeWorkCompletes(f)
    \/ \E f \in Futures : TaskSend(f)

Spec == Init /\ [][Next]_vars

(***************************************************************************)
(* The runtime together with the messages of its sandbox runs.              *)
(***************************************************************************)
SandboxSpecInit ==
    /\ BridgeInit
    /\ sandbox
    /\ SandboxInit
    /\ budget = [msgs |-> MaxMsgs, futs |-> MaxSbFutures, runs |-> MaxSbRuns]
    /\ SettingUnused

\* the scripts of a sandboxed runtime schedule delays that are valid
SandboxNext ==
    \/ RunSandboxed
    \/ \E ok \in BOOLEAN : EntryReturns(ok)
    \/ Think
    \/ \E ok \in BOOLEAN : ThinkHookReturns(ok)
    \/ DrainRecv
    \/ \E ok \in BOOLEAN : ResolutionReturns(ok)
    \/ DrainBreak
    \/ AsyncDelay("pos", TRUE)
    \/ \E f \in Futures : NativeWorkCompletes(f)
    \/ \E f \in Futures : TaskSend(f)
    \/ \E c \in Runs : SbPrint(c)
    \/ \E c \in Runs : SbError(c)
    \/ \E c \in Runs, value \in Reasons : SbTerminate(c, value)
    \/ \E c \in Runs : DropReceiver(c)

SandboxSpec == SandboxSpecInit /\ [][SandboxNext]_vars

(***************************************************************************)
(* A sandboxed runtime with several runs, one after the other.              *)
(***************************************************************************)
AmbientInit ==
    /\ BridgeInit
    /\ sandbox
    /\ SandboxInit
    /\ budget = [msgs |-> 0, futs |-> MaxFutures, runs |-> MaxRuns]
    /\ SettingUnused

AmbientNext ==
    \/ RunSandboxed
    \/ \E ok \in BOOLEAN : EntryReturns(ok)
    \/ Think
    \/ \E ok \in BOOLEAN : ThinkHookReturns(ok)
    \/ DrainRecv
    \/ \E ok \in BOOLEAN : ResolutionReturns(ok)
    \/ DrainBreak
    \/ AsyncDelay("pos", TRUE)
    \/ \E f \in Futures : NativeWorkCompletes(f)
    \/ \E f \in Futures : TaskSend(f)

AmbientSpec == AmbientInit /\ [][AmbientNext]_vars

(***************************************************************************)
(* One runtime whose scripts only print.                                    *)
(***************************************************************************)
QuotaInit ==
    /\ BridgeInit
    /\ sandbox
    /\ SandboxInit
    /\ budget = [msgs |-> MaxPrints, futs |-> 0, runs |-> MaxRuns]
    /\ SettingUnused

QuotaNext ==
    \/ RunSandboxed
    \/ \E ok \in BOOLEAN : EntryReturns(ok)
    \/ \E c \in Runs : SbPrint(c)

QuotaSpec == QuotaInit /\ [][QuotaNext]_vars

(***************************************************************************)
(* Setting<T> (src/settings.rs), for T = bool and T = String.  A string is  *)
(* the sequence of its characters.                                          *)
(***************************************************************************)
Whitespace == {" ", "\t", "\n"}

RECURSIVE TrimStart(_)
TrimStart(str) ==
    IF str # <<>> /\ Head(str) \in Whitespace THEN TrimStart(Tail(str)) ELSE str

RECURSIVE TrimEnd(_)
TrimEnd(str) ==
    IF str # <<>> /\ str[Len(str)] \in Whitespace
    THEN TrimEnd(SubSeq(str, 1, Len(str) - 1)) ELSE str

\* str::trim
Trim(str) == TrimEnd(TrimStart(str))

Digits == <<"0", "1", "2", "3", "4", "5", "6", "7", "8", "9">>
IsDigit(ch) == ch \in Range(Digits)
DigitVal(ch) == (CHOOSE i \in 1..Len(Digits) : Digits[i] = ch) - 1

\* u32::MAX, written out
U32Max == <<"4", "2", "9", "4", "9", "6", "7", "2", "9", "5">>

RECURSIVE StripZeros(_)
StripZeros(ds) == IF Len(ds) > 1 /\ Head(ds) = "0" THEN StripZeros(Tail(ds)) ELSE ds

\* a <= b for two digit strings of the same length
RECURSIVE DigitsLeq(_, _)
DigitsLeq(a, b) ==
    IF a = <<>> THEN TRUE
    ELSE IF DigitVal(Head(a)) < DigitVal(Head(b)) THEN TRUE
    ELSE IF DigitVal(Head(a)) > DigitVal(Head(b)) THEN FALSE
    ELSE DigitsLeq(Tail(a), Tail(b))

FitsU32(ds) ==
    LET z == StripZeros(ds)
    IN \/ Len(z) < Len(U32Max)
       \/ Len(z) = Len(U32Max) /\ DigitsLeq(z, U32Max)

\* u32::from_str(str).ok(), and whether the number is > 0
ParseU32(str) ==
    LET ds == IF str # <<>> /\ Head(str) = "+" THEN Tail(str) ELSE str
    IN IF ds # <<>> /\ (\A i \in 1..Len(ds) : IsDigit(ds[i])) /\ FitsU32(ds)
       THEN [ok |-> TRUE, positive |-> \E i \in 1..Len(ds) : ds[i] # "0"]
       ELSE [ok |-> FALSE, positive |-> FALSE]

ParseError == [ok |-> FALSE, val |-> NoValue]
Parsed(v) == [ok |-> TRUE, val |-> v]

\* <bool as SettingValue>::set_value
BoolSetValue(input) ==
    LET trimmed == Trim(input)
    IN IF trimmed = <<"t", "r", "u", "e">> THEN Parsed(BoolValue(TRUE))
       ELSE IF trimmed = <<"f", "a", "l", "s", "e">> THEN Parsed(BoolValue(FALSE))
       ELSE IF ParseU32(trimmed).ok THEN Parsed(BoolValue(ParseU32(trimmed).positive))
       ELSE ParseError

\* bytes of a character in UTF-8
Utf8Len(ch) == IF ch = "U+00E9" THEN 2 ELSE 1

\* String::len
RECURSIVE ByteLen(_)
ByteLen(str) == IF str = <<>> THEN 0 ELSE Utf8Len(Head(str)) + ByteLen(Tail(str))

\* <String as SettingValue>::is_valid; max_len is {} for None, {n} for Some(n)
StringIsValid(str, maxLen) == \A m \in maxLen : ~(ByteLen(str) > m)

\* <String as SettingValue>::set_value
StringSetValue(input, maxLen) ==
    IF StringIsValid(input, maxLen) THEN Parsed(StringValue(input)) ELSE ParseError

\* T::set_value(input, &self.parameters)
TSetValue(input) ==
    IF setting.ty = "bool" THEN BoolSetValue(input)
    ELSE StringSetValue(input, setting.maxLen)

\* inputs of set_value
BoolInputs ==
    {<<"t", "r", "u", "e">>, <<" ", "t", "r", "u", "e", "\n">>,
     <<"f", "a", "l", "s", "e">>, <<"T", "r", "u", "e">>, <<"t", "r", " ", "u", "e">>,
     <<"1">>, <<"0">>, <<"0", "0">>, <<"+", "1">>, <<"-", "1">>, <<"+">>, <<>>,
     <<"\t", "2", " ">>,
     <<"4", "2", "9", "4", "9", "6", "7", "2", "9", "5">>,
     <<"4", "2", "9", "4", "9", "6", "7", "2", "9", "6">>}
StringInputs == {<<>>, <<"a">>, <<"U+00E9">>, <<"a", "b", "c">>}
Inputs == IF setting.ty = "bool" THEN BoolInputs ELSE StringInputs

Contexts == {[kind |-> "channel", id |-> c] : c \in Channels}
               \cup {[kind |-> "server", id |-> sv] : sv \in Servers}

\* Setting::create: the default is valid for the parameters
SettingConfigs ==
    {[ty |-> "bool", override |-> o, maxLen |-> {}, default |-> BoolValue(b)] :
         o \in BOOLEAN, b \in BOOLEAN}
    \cup {cfg \in [ty : {"string"}, override : BOOLEAN, maxLen : {{}, {1}, {2}},
                    default : {StringValue(str) : str \in StringInputs}] :
              StringIsValid(cfg.default.s, cfg.maxLen)}

GetChannelValue(c) == cachedCh[c]
GetServerValue(sv) == cachedSv[sv]

\* variant: a lookup that ignores SERVER_OVERRIDE
ValueChannelFirst(sv, c) ==
    IF GetChannelValue(c) # NoValue THEN GetChannelValue(c)
    ELSE IF GetServerValue(sv) # NoValue THEN GetServerValue(sv)
    ELSE setting.default

\* what Setting::value returns
ValueOf(sv, c) ==
    IF setting.override
    THEN IF GetServerValue(sv) # NoValue THEN GetServerValue(sv)
         ELSE IF GetChannelValue(c) # NoValue THEN GetChannelValue(c)
         ELSE setting.default
    ELSE IF GetChannelValue(c) # NoValue THEN GetChannelValue(c)
         ELSE IF GetServerValue(sv) # NoValue THEN GetServerValue(sv)
         ELSE setting.default

SettingValue(sv, c) ==
    /\ setting.ty # "none"
    /\ lastOp' = [op |-> "value", ok |-> TRUE, val |-> ValueOf(sv, c),
                  sv |-> sv, ch |-> c]
    /\ UNCHANGED <<bridgeVars, sandboxVars, setting, cachedCh, cachedSv,
                   latestCh, latestSv>>

SetValue(ctx, input) ==
    LET r == TSetValue(input)
    IN /\ setting.ty # "none"
       /\ IF ~r.ok
          THEN \* T::set_value(..)? returns the error
               /\ lastOp' = [op |-> "set_value", ok |-> FALSE, val |-> NoValue,
                             sv |-> IF ctx.kind = "server" THEN ctx.id ELSE 0,
                             ch |-> IF ctx.kind = "channel" THEN ctx.id ELSE 0]
               /\ UNCHANGED <<cachedCh, cachedSv, latestCh, latestSv>>
          ELSE IF ctx.kind = "channel"
          THEN /\ cachedCh' = [cachedCh EXCEPT ![ctx.id] = r.val]
               /\ latestCh' = [latestCh EXCEPT ![ctx.id] = r.val]
               /\ lastOp' = [op |-> "set_value", ok |-> TRUE, val |-> r.val,
                             sv |-> 0, ch |-> ctx.id]
               /\ UNCHANGED <<cachedSv, latestSv>>
          ELSE /\ cachedSv' = [cachedSv EXCEPT ![ctx.id] = r.val]
               /\ latestSv' = [latestSv EXCEPT ![ctx.id] = r.val]
               /\ lastOp' = [op |-> "set_value", ok |-> TRUE, val |-> r.val,
                             sv |-> ctx.id, ch |-> 0]
               /\ UNCHANGED <<cachedCh, latestCh>>
       /\ UNCHANGED <<bridgeVars, sandboxVars, setting>>

FlushCache ==
    /\ setting.ty # "none"
    /\ cachedCh' = [c \in Channels |-> NoValue]
    /\ cachedSv' = [sv \in Servers |-> NoValue]
    /\ latestCh' = [c \in Channels |-> NoValue]
    /\ latestSv' = [sv \in Servers |-> NoValue]
    /\ lastOp' = [op |-> "flush_cache", ok |-> TRUE, val |-> NoValue,
                  sv |-> 0, ch |-> 0]
    /\ UNCHANGED <<bridgeVars, sandboxVars, setting>>

SettingsInit ==
    /\ BridgeInit
    /\ ~sandbox
    /\ SandboxInit
    /\ budget = [msgs |-> 0, futs |-> 0, runs |-> 0]
    /\ setting \in SettingConfigs
    /\ cachedCh = [c \in Channels |-> NoValue]
    /\ cachedSv = [sv \in Servers |-> NoValue]
    /\ latestCh = [c \in Channels |-> NoValue]
    /\ latestSv = [sv \in Servers |-> NoValue]
    /\ lastOp = NoOp

SettingsNext ==
    \/ \E ctx \in Contexts, input \in Inputs : SetValue(ctx, input)
    \/ \E sv \in Servers, c \in Channels : SettingValue(sv, c)
    \/ FlushCache

SettingsSpec == SettingsInit /\ [][SettingsNext]_vars

(***************************************************************************)
(* Properties.                                                              *)
(***************************************************************************)
Count(s, x) == Cardinality({i \in 1..Len(s) : s[i] = x})
Pos(s, x) == IF \E i \in 1..Len(s) : s[i] = x
             THEN CHOOSE i \in 1..Len(s) : s[i] = x
             ELSE 0
ResolvedFuts == [i \in 1..Len(resolved) |-> resolved[i].fut]
DelayFuts == {f \in Futures : task[f].kind = "delay"}
ThinkReturned(res) == host.op = "think" /\ host.res = res

\* C1: at most one call into the interpreter is in flight in every reachable
\* state, and a call is in flight only while the host thread is inside
\* run_sandboxed, run_bot_command or think; the tasks never enter it.
C1_SingleInterpreterCall ==
    /\ interp <= 1
    /\ (interp = 1) <=> (pc \in LuaPcs)

\* a task sends its descriptor while the think hook is running
C1_Witness ==
    /\ pc = "think_hook"
    /\ interp = 1
    /\ \E f \in Range(QueueFuts) : f \notin tick.startQ

\* What C2 says of every async.delay call that spawned its task: at most one
\* descriptor, sent once the task is done, only after the delay elapsed, and
\* received only after it was sent.
C2_OneEnqueueAfterElapse ==
    \A f \in DelayFuts :
        /\ Count(enq, f) <= 1
        /\ (task[f].st = "done") <=> (Count(enq, f) = 1)
        /\ f \in Range(enq) => f \in elapsed
        /\ f \in Range(popped) => f \in Range(enq)

\* C2 as stated: moreover every think() called after the delay elapsed has
\* received the descriptor by the time it returns.
C2_Original ==
    /\ C2_OneEnqueueAfterElapse
    /\ (ThinkReturned("ok") \/ ThinkReturned("err"))
          => tick.startE \cap DelayFuts = {}

\* C2 as amended: exactly one descriptor per async.delay call that returned a
\* future, sent strictly after the delay elapsed and never received before; a
\* think() called after the descriptor was sent and returning Ok has received
\* it, and one returning an error has received it or left it in the queue.
C2_Amended ==
    /\ C2_OneEnqueueAfterElapse
    /\ ThinkReturned("ok") => tick.startQ \cap DelayFuts = {}
    /\ ThinkReturned("err") => (tick.startQ \cap DelayFuts) \subseteq Range(QueueFuts)

\* think() is resolving the future of an async.delay call whose descriptor was
\* in the queue when it was called
C2_Witness ==
    /\ pc = "resolve"
    /\ cur.fut \in DelayFuts
    /\ cur.fut \in elapsed
    /\ Count(enq, cur.fut) = 1

\* the durations C3 is about: d < 0 or d not finite
ClaimedInvalid == {"neg", "neginf", "inf", "nan"}

\* C3: async.delay(d) with d negative or non-finite returns an error to the
\* script ("Invalid duration" whenever the future constructor worked), spawns
\* no task, and no descriptor for its future is ever sent.
C3_InvalidDurationRejected ==
    /\ (lastCall.op = "delay" /\ lastCall.d \in ClaimedInvalid)
          => /\ lastCall.res \in {"Invalid duration", "future error"}
             /\ lastCall.fut # 0 => /\ lastCall.res = "Invalid duration"
                                    /\ lastCall.fut \in rejected
    /\ \A f \in rejected :
          /\ task[f] = NoTask
          /\ f \notin elapsed
          /\ f \notin Range(enq)
          /\ f \notin Range(QueueFuts)

C3_Witness ==
    /\ lastCall.op = "delay"
    /\ lastCall.d = "nan"
    /\ lastCall.res = "Invalid duration"
    /\ \E f \in rejected : f # lastCall.fut

\* C4: once the resolution call for a received descriptor is over, however it
\* ended, the future has no registry entry.
C4_KeepAliveReleased ==
    \A i \in 1..Len(popped) :
        \/ pc = "resolve" /\ cur.fut = popped[i]
        \/ popped[i] \notin registry

\* C5: when the think hook or a resolution raises, think() returns the error
\* at once and receives nothing more; what was sent and not received stays in
\* the queue in sending order, and a later think() that returns Ok has
\* received everything that was queued when it was called.
C5_ErrorAbortsTick ==
    /\ (host.op = "think" /\ host.cause \in {"think_hook", "resolution"})
          => /\ host.res = "err"
             /\ pc = "idle"
             /\ Len(popped) = tick.errPopped
    /\ enq = popped \o QueueFuts
    /\ ThinkReturned("err") => tick.startQ \subseteq Range(QueueFuts)
    /\ ThinkReturned("ok") => tick.startQ = {}

\* a resolution raised while another descriptor, queued since the tick was
\* called, was waiting behind it
C5_Witness ==
    /\ ThinkReturned("err")
    /\ host.cause = "resolution"
    /\ tick.startQ # {}
    /\ queue # <<>>

\* C6: each descriptor is sent at most once and received exactly once, and
\* the resolution entry point of a future is called at most once.
C6_AtMostOnce ==
    \A f \in Futures :
        /\ Count(enq, f) <= 1
        /\ Count(popped, f) <= 1
        /\ Count(ResolvedFuts, f) <= 1
        /\ Count(ResolvedFuts, f) <= Count(popped, f)
        /\ Count(enq, f) = Count(popped, f) + Count(QueueFuts, f)

C6_Witness ==
    /\ pc = "idle"
    /\ Len(popped) >= 2
    /\ Len(resolved) = Len(popped)
    /\ \E ok \in BOOLEAN : ThinkReturned(IF ok THEN "ok" ELSE "err")
    /\ registry = {}

\* C7: descriptors are received in the order they were sent, and the
\* resolution calls are made in that order, within one think() and across
\* several.
C7_Fifo ==
    \A i, j \in 1..Len(enq) :
        i < j =>
            /\ Pos(popped, enq[j]) # 0 =>
                  /\ Pos(popped, enq[i]) # 0
                  /\ Pos(popped, enq[i]) < Pos(popped, enq[j])
            /\ (Pos(ResolvedFuts, enq[i]) # 0 /\ Pos(ResolvedFuts, enq[j]) # 0)
                  => Pos(ResolvedFuts, enq[i]) < Pos(ResolvedFuts, enq[j])

\* the future created second was sent first, and resolved first
C7_Witness ==
    /\ Len(enq) >= 2
    /\ enq[1] > enq[2]
    /\ Len(resolved) >= 2
    /\ resolved[1].fut = enq[1]
    /\ resolved[2].fut = enq[2]

\* C8: the success flag passed to sandbox.async_callback is the outcome of
\* the completion function.
C8_FlagIsOutcome ==
    \A i \in 1..Len(resolved) :
        resolved[i].hook = "async_callback" => resolved[i].flag = resolved[i].succ

\* C9: in a trusted runtime every received descriptor gets one call, of
\* __handle_resolve with the values when the completion function succeeded
\* and of __handle_reject with the message when it failed, and think()
\* returns an error only when the think hook or a resolution raised.
C9_TrustedResolution ==
    ~sandbox =>
        /\ ResolvedFuts = popped
        /\ \A i \in 1..Len(resolved) :
              /\ resolved[i].succ =>
                    resolved[i].hook = "__handle_resolve" /\ resolved[i].val = "values"
              /\ ~resolved[i].succ =>
                    resolved[i].hook = "__handle_reject" /\ resolved[i].val = "message"
        /\ ThinkReturned("err") => host.cause \in {"think_hook", "resolution"}
        /\ (pc = "resolve" /\ ~cur.ok) => host.res = "running"

\* a failed completion was delivered to __handle_reject, the call returned
\* and think() went on to release the future
C9_Witness ==
    /\ ~sandbox
    /\ \E i \in 1..Len(resolved) :
          /\ ~resolved[i].succ
          /\ resolved[i].hook = "__handle_reject"
          /\ resolved[i].fut \notin registry
    /\ ThinkReturned("ok")

\* C10: every received descriptor gets a resolution call: sandbox.async_callback
\* when it carries a sandbox state, the future's own hook when it carries none.
C10_EveryPoppedResolved ==
    \A i \in 1..Len(popped) :
        \E k \in 1..Len(resolved) :
            /\ resolved[k].fut = popped[i]
            /\ IF task[popped[i]].ctx # NoCtx
               THEN resolved[k].hook = "async_callback"
               ELSE resolved[k].hook \in {"__handle_resolve", "__handle_reject"}

\* C11: a run starts with lines_left = 10 and each print takes one line off
\* it; a run's receiver gets at most ten Out messages, and the print after
\* the tenth gives an Error message instead of an Out.
C11_OutputQuota ==
    \A c \in 1..nruns :
        /\ Count(msgs[c], "Out") <= LinesLeftInit
        /\ linesLeft[c] = LinesLeftInit - Count(msgs[c], "Out")
        /\ \A i \in 1..Len(msgs[c]) : i > LinesLeftInit => msgs[c][i] = "Error"

\* C12: terminate("exec") returns success and puts exactly one Terminated
\* message on the channel of its run (none when the receiver is gone);
\* terminate with any other string returns an error, sends nothing and
\* changes nothing of the sandbox state.
C12_TerminateValidates ==
    [][\A c \in Runs, value \in Reasons :
          SbTerminate(c, value) =>
              IF value = "exec"
              THEN /\ lastMethod'.res = "ok"
                   /\ msgs' = [msgs EXCEPT ![c] =
                                 IF rcvOpen[c] THEN Append(@, "Terminated") ELSE @]
                   /\ UNCHANGED <<rcvOpen, linesLeft, ambient>>
              ELSE /\ lastMethod'.res = "err"
                   /\ UNCHANGED <<msgs, rcvOpen, linesLeft, ambient>>]_vars

\* a terminate("exec") in a continuation was followed by a terminate that
\* was refused
C12_Witness ==
    /\ pc = "resolve"
    /\ lastMethod.op = "terminate"
    /\ lastMethod.arg = "time"
    /\ lastMethod.res = "err"
    /\ msgs[cur.ctx] = <<"Terminated">>

\* C13: with the receiver of its run dropped, print, error and
\* terminate("exec") return success, and the call that runs the script is
\* still in flight.
C13_SendFailureSwallowed ==
    \A c \in ThisStates :
        (/\ ~rcvOpen[c]
         /\ \/ lastMethod.op \in {"print", "error"}
            \/ lastMethod.op = "terminate" /\ lastMethod.arg = "exec")
        => /\ lastMethod.res = "ok"
           /\ pc \in LuaPcs
           /\ host.res = "running"
           /\ interp = 1

\* the host dropped the receiver, and the continuation of the run printed
C13_Witness ==
    /\ pc = "resolve"
    /\ ~rcvOpen[cur.ctx]
    /\ lastMethod.op = "print"
    /\ lastMethod.res = "ok"
    /\ msgs[cur.ctx] = <<>>

HasTerminated(c) == "Terminated" \in Range(msgs[c])

\* C14: terminate cancels nothing: it leaves the tasks, the queue and the
\* registry as they are.  Once a run has emitted Terminated, think() still
\* receives its descriptors and calls sandbox.async_callback with the state
\* of that run, and its print and error calls still reach the receiver.  A
\* Terminated emitted by the continuation of a delay is emitted inside a
\* think() call, after the delay elapsed and its descriptor was received.
C14_TerminationAdvisory ==
    [][/\ \A c \in Runs, value \in Reasons :
             SbTerminate(c, value) =>
                 UNCHANGED <<task, queue, registry, elapsed, enq, popped, rcvOpen, pc>>
       /\ \A c \in Runs :
             HasTerminated(c) =>
                 /\ (DrainRecv /\ BridgeRecv(queue).ctx = c) =>
                        /\ pc' = "resolve"
                        /\ cur'.ctx = c
                        /\ resolved'[Len(resolved')].fut = cur'.fut
                        /\ resolved'[Len(resolved')].hook = "async_callback"
                        /\ resolved'[Len(resolved')].ctx = c
                 /\ (SbPrint(c) /\ rcvOpen[c]) => msgs'[c] = Append(msgs[c], "Out")
                 /\ (SbError(c) /\ rcvOpen[c]) => msgs'[c] = Append(msgs[c], "Error")
       /\ \A c \in Runs :
             (SbTerminate(c, "exec") /\ pc = "resolve" /\ cur.fut \in DelayFuts) =>
                 /\ cur.fut \in elapsed
                 /\ cur.fut \in Range(popped)
                 /\ host.op = "think"
                 /\ host.res = "running"]_vars

\* a run terminated itself and scheduled a delay; a later think() routed the
\* delay's continuation through async_callback, and its print was forwarded
C14_Witness ==
    /\ pc = "resolve"
    /\ cur.ctx # NoCtx
    /\ msgs[cur.ctx] = <<"Terminated", "Out">>
    /\ lastMethod.op = "print"
    /\ resolved[Len(resolved)].hook = "async_callback"
    /\ resolved[Len(resolved)].ctx = cur.ctx

IsPrefix(p, q) == Len(p) <= Len(q) /\ \A i \in 1..Len(p) : p[i] = q[i]

\* C16: think() calls sandbox.think in a sandboxed runtime and bot.think in
\* a trusted one, and receives descriptors only after that call returned.
\* While the hook is in flight think() receives nothing and removes no
\* registry entry, and when the hook raises think() returns the error with
\* the queue and the registry as they are.
C16_HookFirst ==
    [][/\ Think => /\ tick'.hook = (IF sandbox THEN "sandbox.think" ELSE "bot.think")
                   /\ pc' = "think_hook"
                   /\ UNCHANGED <<popped, queue, registry>>
       /\ popped' # popped => (pc = "drain" /\ host.op = "think")
       /\ pc = "think_hook" =>
             /\ popped' = popped
             /\ IsPrefix(queue, queue')
             /\ registry \subseteq registry'
       /\ ThinkHookReturns(FALSE) =>
             /\ pc' = "idle"
             /\ host'.res = "err"
             /\ UNCHANGED <<popped, resolved, queue, registry>>]_vars

\* the hook of a sandboxed runtime raised while a descriptor, queued when
\* think() was called, was waiting: it is still queued and kept alive
C16_Witness ==
    /\ ThinkReturned("err")
    /\ host.cause = "think_hook"
    /\ tick.hook = "sandbox.think"
    /\ tick.startQ # {}
    /\ tick.startQ \subseteq Range(QueueFuts)
    /\ tick.startQ \subseteq registry
    /\ tick.errPopped = Len(popped)

\* C17: a future whose task was spawned keeps its registry entry until
\* think() has received its descriptor, and while its resolution call is in
\* flight; the registry lookup of think() never fails.
C17_KeepAliveWhilePending ==
    /\ \A f \in Futures :
          (task[f].st # "none" /\ f \notin Range(popped)) => f \in registry
    /\ pc = "resolve" => cur.fut \in registry
    /\ host.cause # "registry"

\* think() found the future of the descriptor it received, while the
\* descriptor of another future is still queued and kept alive
C17_Witness ==
    /\ pc = "resolve"
    /\ cur.fut \in DelayFuts
    /\ cur.fut \in registry
    /\ \E f \in Range(QueueFuts) : f \in DelayFuts /\ f \in registry

\* C18: the registry holds exactly the futures whose native work was
\* scheduled and whose descriptor has not been drained yet; an async.delay
\* call that fails validation therefore leaves no entry behind.
C18_NoLeak ==
    registry = {f \in Futures :
                   /\ task[f].st # "none"
                   /\ \/ f \notin Range(popped)
                      \/ pc = "resolve" /\ cur.fut = f}

\* C19: think() makes the resolution call for every descriptor it receives,
\* a resolution that returns releases the keep-alive of its future, and a
\* think() that returns Ok(()) has received every descriptor that was queued
\* when it was called and leaves the queue empty.
C19_TickProcessesQueue ==
    [][/\ DrainRecv =>
             /\ pc' = "resolve"
             /\ cur'.fut = BridgeRecv(queue).fut
             /\ Len(resolved') = Len(resolved) + 1
             /\ resolved'[Len(resolved')].fut = cur'.fut
       /\ ResolutionReturns(TRUE) =>
             /\ cur.fut \in Range(ResolvedFuts)
             /\ cur.fut \notin registry'
       /\ DrainBreak =>
             /\ host'.res = "ok"
             /\ tick.startQ = {}
             /\ queue = <<>>]_vars

\* the value the claim gives for (server, channel): by the latest set_value
\* that succeeded for each of them since the last flush_cache
ClaimedValue(sv, c) ==
    IF setting.override
    THEN IF latestSv[sv] # NoValue THEN latestSv[sv]
         ELSE IF latestCh[c] # NoValue THEN latestCh[c]
         ELSE setting.default
    ELSE IF latestCh[c] # NoValue THEN latestCh[c]
         ELSE IF latestSv[sv] # NoValue THEN latestSv[sv]
         ELSE setting.default

\* C20: value(server, channel) returns the latest value set for the server
\* before the one set for the channel under SERVER_OVERRIDE, the channel's
\* before the server's without it, and the default when neither was set; a
\* set_value that returns an error leaves both caches as they were;
\* after flush_cache, value returns the default for every server and channel.
C20_LookupPrecedence ==
    [][/\ lastOp'.op = "value" =>
             /\ lastOp'.ok
             /\ lastOp'.val = ClaimedValue(lastOp'.sv, lastOp'.ch)
             /\ UNCHANGED <<cachedCh, cachedSv>>
       /\ (lastOp'.op = "set_value" /\ ~lastOp'.ok) => UNCHANGED <<cachedCh, cachedSv>>
       /\ lastOp'.op = "flush_cache" =>
             \A sv \in Servers, c \in Channels : ValueOf(sv, c)' = setting.default]_vars

\* under SERVER_OVERRIDE, with different values set for the server and for
\* the channel, value returned the server's
C20_Witness ==
    /\ setting.override
    /\ lastOp.op = "value"
    /\ latestSv[lastOp.sv] # NoValue
    /\ latestCh[lastOp.ch] # NoValue
    /\ latestSv[lastOp.sv] # latestCh[lastOp.ch]
    /\ lastOp.val = latestSv[lastOp.sv]
    /\ lastOp.val # setting.default

====
